---- MODULE Spec2Model ----
(***************************************************************************)
(* Model of the edge proxy in src/src/index.ts: the fetch handler (CORS    *)
(* headers, preflight, allow-list gate, windowed rate limiter over a KV    *)
(* namespace) and handleRequest (upstream selection, relay).               *)
(*                                                                         *)
(* JavaScript strings are sequences of one-character strings, so that      *)
(* split, replace, parseInt, toString, template strings and the URL parser *)
(* are computed, not assumed.  A header, an environment variable or a KV   *)
(* entry that is absent (null / undefined) is a key outside the DOMAIN of  *)
(* the function that holds it.                                             *)
(***************************************************************************)
EXTENDS Integers, Sequences, FiniteSets, TLC

VARIABLES env, now, store, pc, req, corsOf, key, cnt, out, upstream, resp, ops, admitted

vars == <<env, now, store, pc, req, corsOf, key, cnt, out, upstream, resp, ops, admitted>>

----------------------------------------------------------------------------
(* Strings *)

Digits == <<"0", "1", "2", "3", "4", "5", "6", "7", "8", "9">>

Lower == {"a", "b", "c", "d", "e", "f", "g", "h", "i", "j", "k", "l", "m",
          "n", "o", "p", "q", "r", "s", "t", "u", "v", "w", "x", "y", "z"}

Upper == {"A", "B", "C", "D", "E", "F", "G", "H", "I", "J", "K", "L", "M",
          "N", "O", "P", "Q", "R", "S", "T", "U", "V", "W", "X", "Y", "Z"}

IsDigit(c) == \E i \in 1..10 : Digits[i] = c

DigitValue(c) == (CHOOSE i \in 1..10 : Digits[i] = c) - 1

\* The character class [a-zA-Z0-9-] of the generated regular expression.
SubdomainChar(c) == c \in Lower \/ c \in Upper \/ IsDigit(c) \/ c = "-"

\* String.prototype.split(sep) for a one-character separator.
RECURSIVE SplitFrom(_, _, _, _)
SplitFrom(s, sep, i, cur) ==
    IF i > Len(s) THEN <<cur>>
    ELSE IF s[i] = sep THEN <<cur>> \o SplitFrom(s, sep, i + 1, <<>>)
    ELSE SplitFrom(s, sep, i + 1, Append(cur, s[i]))

Split(s, sep) == SplitFrom(s, sep, 1, <<>>)

\* Array.prototype.includes on an array of strings.
Includes(arr, x) == \E i \in 1..Len(arr) : arr[i] = x

\* Index of the first occurrence of one of the characters cs at or after i,
\* Len(s) + 1 when there is none.
RECURSIVE FindFirst(_, _, _)
FindFirst(s, cs, i) ==
    IF i > Len(s) THEN Len(s) + 1
    ELSE IF s[i] \in cs THEN i
    ELSE FindFirst(s, cs, i + 1)

StartsWith(s, prefix) ==
    /\ Len(s) >= Len(prefix)
    /\ SubSeq(s, 1, Len(prefix)) = prefix

\* parseInt(string): NaN or an integer.  Leading sign, then the longest run
\* of decimal digits; anything after it is ignored; no digit gives NaN.
\* (No leading white space and no 0x prefix in the strings of this model.)
NaN == [nan |-> TRUE, val |-> 0]

Num(n) == [nan |-> FALSE, val |-> n]

RECURSIVE DigitsValue(_, _, _)
DigitsValue(s, i, acc) ==
    IF i > Len(s) \/ ~IsDigit(s[i]) THEN acc
    ELSE DigitsValue(s, i + 1, acc * 10 + DigitValue(s[i]))

ParseInt(s) ==
    LET neg   == Len(s) >= 1 /\ s[1] = "-"
        pos   == Len(s) >= 1 /\ s[1] = "+"
        first == IF neg \/ pos THEN 2 ELSE 1
    IN  IF first > Len(s) \/ ~IsDigit(s[first]) THEN NaN
        ELSE Num((IF neg THEN -1 ELSE 1) * DigitsValue(s, first, 0))

\* parseInt(x) || dflt: NaN and 0 are falsy.
OrDefault(n, dflt) == IF n.nan \/ n.val = 0 THEN dflt ELSE n.val

\* Number.prototype.toString() of an integer.
RECURSIVE NatToString(_)
NatToString(n) ==
    IF n < 10 THEN <<Digits[n + 1]>>
    ELSE Append(NatToString(n \div 10), Digits[(n % 10) + 1])

NumToString(n) == IF n < 0 THEN <<"-">> \o NatToString(-n) ELSE NatToString(n)

\* A header set, or an environment, with nothing in it.
NoHeaders == [h \in {} |-> <<>>]

\* A name that is set to a non-empty string: the truthiness test the code
\* applies to headers, environment variables and query parameters.
Truthy(f, name) == name \in DOMAIN f /\ f[name] # <<>>

\* Math.floor(a / b) for integers a and b # 0.
FloorDiv(a, b) == IF b > 0 THEN a \div b ELSE (-a) \div (-b)

----------------------------------------------------------------------------
(* Origin validation: index.ts lines 13-40 *)

\* String.prototype.replace(/c/g, repl) for a one-character pattern.
RECURSIVE ReplaceAll(_, _, _)
ReplaceAll(s, c, repl) ==
    IF s = <<>> THEN <<>>
    ELSE (IF Head(s) = c THEN repl ELSE <<Head(s)>>) \o ReplaceAll(Tail(s), c, repl)

EscapedDot == <<"\\", ".">>

SubdomainClass == <<"[", "a", "-", "z", "A", "-", "Z", "0", "-", "9", "-", "]", "+">>

\* domain.replace(/\./g, '\\.').replace(/\*/g, '[a-zA-Z0-9-]+')
DomainPattern(domain) == ReplaceAll(ReplaceAll(domain, ".", EscapedDot), "*", SubdomainClass)

\* `^${domainPattern}$`
RegexPattern(domain) == <<"^">> \o DomainPattern(domain) \o <<"$">>

\* new RegExp(source), for the sources the two replacements above produce from
\* patterns over letters, digits, '-', ':', '/', '.' and '*': a backslash
\* escapes the next character, the class source is one or more subdomain
\* characters, '^' and '$' are the anchors, every other character is itself.
RECURSIVE Compile(_)
Compile(src) ==
    IF src = <<>> THEN <<>>
    ELSE IF Head(src) = "\\" /\ Len(src) >= 2
         THEN <<[t |-> "lit", c |-> src[2]]>> \o Compile(SubSeq(src, 3, Len(src)))
    ELSE IF StartsWith(src, SubdomainClass)
         THEN <<[t |-> "sub", c |-> ""]>>
              \o Compile(SubSeq(src, Len(SubdomainClass) + 1, Len(src)))
    ELSE IF Head(src) = "^" THEN <<[t |-> "bol", c |-> ""]>> \o Compile(Tail(src))
    ELSE IF Head(src) = "$" THEN <<[t |-> "eol", c |-> ""]>> \o Compile(Tail(src))
    ELSE <<[t |-> "lit", c |-> Head(src)]>> \o Compile(Tail(src))

\* The compiled expression re, from token i on, matches s from position j on.
RECURSIVE MatchFrom(_, _, _, _)
MatchFrom(re, i, s, j) ==
    IF i > Len(re) THEN TRUE
    ELSE IF re[i].t = "bol" THEN j = 1 /\ MatchFrom(re, i + 1, s, j)
    ELSE IF re[i].t = "eol" THEN j = Len(s) + 1 /\ MatchFrom(re, i + 1, s, j)
    ELSE IF re[i].t = "lit"
         THEN j <= Len(s) /\ s[j] = re[i].c /\ MatchFrom(re, i + 1, s, j + 1)
    ELSE \E k \in (j + 1)..(Len(s) + 1) :
            /\ \A m \in j..(k - 1) : SubdomainChar(s[m])
            /\ MatchFrom(re, i + 1, s, k)

\* RegExp.prototype.test: a match starting at some position.
RegexTest(re, s) == \E j \in 1..(Len(s) + 1) : MatchFrom(re, 1, s, j)

\* The callback of supportedDomains.some(...), lines 23-32.
DomainMatches(domain, origin) == RegexTest(Compile(RegexPattern(domain)), origin)

IsWhitelisted(supportedDomains, origin) ==
    \E i \in 1..Len(supportedDomains) : DomainMatches(supportedDomains[i], origin)

BaseCorsHeaders ==
    ("Access-Control-Allow-Methods" :> <<"GET, HEAD, POST, PUT, OPTIONS">>)
    @@ ("Access-Control-Allow-Headers" :> <<"*">>)

AllowOrigin == "Access-Control-Allow-Origin"

\* Falling back to '*' when no pattern matches.
CorsHeadersOpenFallback(e, r) ==
    IF /\ Truthy(e, "CORS_ALLOW_ORIGIN")
       /\ Truthy(r.headers, "Origin")
       /\ IsWhitelisted(Split(e["CORS_ALLOW_ORIGIN"], ","), r.headers["Origin"])
    THEN BaseCorsHeaders @@ (AllowOrigin :> r.headers["Origin"])
    ELSE BaseCorsHeaders @@ (AllowOrigin :> <<"*">>)

\* corsHeaders as it stands at line 41.
CorsHeaders(e, r) ==
    IF Truthy(e, "CORS_ALLOW_ORIGIN")
    THEN IF /\ Truthy(r.headers, "Origin")
            /\ IsWhitelisted(Split(e["CORS_ALLOW_ORIGIN"], ","), r.headers["Origin"])
         THEN BaseCorsHeaders @@ (AllowOrigin :> r.headers["Origin"])
         ELSE BaseCorsHeaders
    ELSE BaseCorsHeaders @@ (AllowOrigin :> <<"*">>)

----------------------------------------------------------------------------
(* Allow-list gate and rate limiter: index.ts lines 50-77 *)

Unknown == <<"u", "n", "k", "n", "o", "w", "n">>

\* The client address ignored: one identity for all.
ClientIdentifierShared(r) == Unknown

\* request.headers.get('CF-Connecting-IP') || 'unknown'
ClientIdentifier(r) ==
    IF Truthy(r.headers, "CF-Connecting-IP") THEN r.headers["CF-Connecting-IP"] ELSE Unknown

\* env.WHITELISTED_IPS ? env.WHITELISTED_IPS.split(',') : []
WhitelistedIps(e) ==
    IF Truthy(e, "WHITELISTED_IPS") THEN Split(e["WHITELISTED_IPS"], ",") ELSE <<>>

\* The gate taken out.
BypassesNobody(e, r) == FALSE

\* The test inverted.
BypassesUnlisted(e, r) == ~Includes(WhitelistedIps(e), ClientIdentifier(r))

Bypasses(e, r) == Includes(WhitelistedIps(e), ClientIdentifier(r))

\* parseInt(env.X): parseInt(undefined) is NaN.
ParseIntOf(e, name) == IF name \in DOMAIN e THEN ParseInt(e[name]) ELSE NaN

DefaultMaxRequests == 50

DefaultTimeWindow == 1

RATE_LIMIT_MAX_REQUESTS(e) ==
    OrDefault(ParseIntOf(e, "RATE_LIMIT_MAX_REQUESTS"), DefaultMaxRequests)

RATE_LIMIT_TIME_WINDOW(e) ==
    OrDefault(ParseIntOf(e, "RATE_LIMIT_TIME_WINDOW"), DefaultTimeWindow)

MsPerSecond == 1000

\* Math.floor(Date.now() / (RATE_LIMIT_TIME_WINDOW * 1000))
CurrentTime(e, t) == FloorDiv(t, RATE_LIMIT_TIME_WINDOW(e) * MsPerSecond)

\* `${clientIdentifier}:${currentTime}`
WindowKey(id, ct) == id \o <<":">> \o NumToString(ct)

WindowKeyOf(e, r, t) == WindowKey(ClientIdentifier(r), CurrentTime(e, t))

\* KV: an entry is readable until its expiration time.
Live(st, k, t) == k \in DOMAIN st /\ t < st[k].expiration

\* requestCount ? parseInt(requestCount) : 0, on the result of get(windowKey)
Count(st, k, t) ==
    IF Live(st, k, t) /\ st[k].value # <<>> THEN ParseInt(st[k].value) ELSE Num(0)

\* The comparison taken out.
ExceededNever(count, e) == FALSE

\* Off by one: count > RATE_LIMIT_MAX_REQUESTS.
ExceededStrictly(count, e) == ~count.nan /\ count.val > RATE_LIMIT_MAX_REQUESTS(e)

\* count >= RATE_LIMIT_MAX_REQUESTS (a comparison with NaN is false)
Exceeded(count, e) == ~count.nan /\ count.val >= RATE_LIMIT_MAX_REQUESTS(e)

\* Counting a request twice.
IncrementByTwo(count) == IF count.nan THEN NaN ELSE Num(count.val + 2)

\* count += 1
Increment(count) == IF count.nan THEN NaN ELSE Num(count.val + 1)

\* count.toString()
CountToString(count) == IF count.nan THEN <<"N", "a", "N">> ELSE NumToString(count.val)

ExpirationTtl == 60

\* put(windowKey, count.toString(), { expirationTtl: 60 })
KvPut(st, k, v, t) ==
    [x \in DOMAIN st \cup {k} |->
        IF x = k THEN [value |-> v, expiration |-> t + ExpirationTtl * MsPerSecond]
        ELSE st[x]]

----------------------------------------------------------------------------
(* Dispatcher: index.ts lines 83-110 *)

Mainnet == <<"m", "a", "i", "n", "n", "e", "t">>

ClusterParam == <<"c", "l", "u", "s", "t", "e", "r">>

Https == <<"h", "t", "t", "p", "s", ":", "/", "/">>

RpcSuffix == <<".", "h", "e", "l", "i", "u", "s", "-", "r", "p", "c", ".", "c", "o", "m">>

ApiHost == <<"a", "p", "i", ".", "h", "e", "l", "i", "u", "s", ".", "x", "y", "z">>

ApiKeyParam == <<"?", "a", "p", "i", "-", "k", "e", "y", "=">>

Undefined == <<"u", "n", "d", "e", "f", "i", "n", "e", "d">>

\* ${env.X} in a template string
Interpolate(e, name) == IF name \in DOMAIN e THEN e[name] ELSE Undefined

\* The name=value pairs of a query string (URLSearchParams), in order; no
\* percent-encoding and no '+' in the query strings of this model.
QueryPairs(search) ==
    LET raw == IF search = <<>> THEN <<>> ELSE Split(Tail(search), "&")
    IN  SelectSeq(raw, LAMBDA x : x # <<>>)

PairName(pair) == SubSeq(pair, 1, FindFirst(pair, {"="}, 1) - 1)

PairValue(pair) == SubSeq(pair, FindFirst(pair, {"="}, 1) + 1, Len(pair))

\* searchParams as a function: each name present to its first value.
SearchParams(search) ==
    LET pairs == QueryPairs(search)
        names == {PairName(pairs[i]) : i \in 1..Len(pairs)}
    IN  [n \in names |->
            PairValue(pairs[CHOOSE i \in 1..Len(pairs) :
                /\ PairName(pairs[i]) = n
                /\ \A j \in 1..(i - 1) : PairName(pairs[j]) # n])]

\* searchParams.get('cluster') || 'mainnet'
CLUSTER(r) ==
    IF Truthy(SearchParams(r.search), ClusterParam)
    THEN SearchParams(r.search)[ClusterParam]
    ELSE Mainnet

\* upgradeHeader || upgradeHeader === 'websocket'
Websocket == <<"w", "e", "b", "s", "o", "c", "k", "e", "t">>

IsUpgrade(r) ==
    \/ Truthy(r.headers, "Upgrade")
    \/ ("Upgrade" \in DOMAIN r.headers /\ r.headers["Upgrade"] = Websocket)

\* await request.text()
Text(body) == IF body = <<>> THEN <<>> ELSE body[1]

\* payload || null
BodyOrNull(payload) == IF payload = <<>> THEN <<>> ELSE <<payload>>

\* Line 90: the URL of the pass-through fetch.
UpgradeUrl(e, r) ==
    Https \o CLUSTER(r) \o RpcSuffix \o <<"/">> \o ApiKeyParam \o Interpolate(e, "HELIUS_API_KEY")

\* Line 95: the URL of the proxied request.
UpstreamHost(r) == IF r.pathname = <<"/">> THEN CLUSTER(r) \o RpcSuffix ELSE ApiHost

ProxyUrl(e, r) ==
    Https \o UpstreamHost(r) \o r.pathname \o ApiKeyParam \o Interpolate(e, "HELIUS_API_KEY")
        \o (IF r.search # <<>> THEN <<"&">> \o Tail(r.search) ELSE <<>>)

ProxyHeaders ==
    ("Content-Type" :> <<"application/json">>) @@ ("X-Helius-Cloudflare-Proxy" :> <<"true">>)

\* The outbound request handleRequest hands to fetch.
HandleRequest(e, r) ==
    IF IsUpgrade(r)
    THEN [url |-> UpgradeUrl(e, r), method |-> r.method, headers |-> r.headers,
          body |-> r.body, bodyRead |-> FALSE]
    ELSE [url |-> ProxyUrl(e, r), method |-> r.method, headers |-> ProxyHeaders,
          body |-> BodyOrNull(Text(r.body)), bodyRead |-> TRUE]

\* What the URL parser of fetch / new Request makes of an https URL string
\* (no userinfo and no port in the URLs of this model): the host ends at the
\* first '/', '?' or '#', the path at the first '?' or '#', the query at '#'.
UrlHost(u) == SubSeq(u, Len(Https) + 1, FindFirst(u, {"/", "?", "#"}, Len(Https) + 1) - 1)

UrlPathname(u) ==
    LET from == FindFirst(u, {"/", "?", "#"}, Len(Https) + 1)
        path == SubSeq(u, from, FindFirst(u, {"?", "#"}, from) - 1)
    IN  IF path = <<>> THEN <<"/">> ELSE path

UrlSearch(u) ==
    LET from  == FindFirst(u, {"?", "#"}, Len(Https) + 1)
        query == IF from <= Len(u) /\ u[from] = "?"
                 THEN SubSeq(u, from, FindFirst(u, {"#"}, from) - 1)
                 ELSE <<>>
    IN  IF query = <<"?">> THEN <<>> ELSE query

\* The upstream's headers kept, the CORS headers added to them.
RelayKeepingHeaders(o, res, cors) ==
    IF o.bodyRead THEN [status |-> res.status, body |-> res.body, headers |-> cors @@ res.headers]
    ELSE res

\* Lines 104-109 for a proxied request, line 90 for a passed-through one.
Relay(o, res, cors) ==
    IF o.bodyRead THEN [status |-> res.status, body |-> res.body, headers |-> cors]
    ELSE res

\* The method compared in the wrong case.
IsPreflightLowerCase(r) == r.method = "options"

\* Line 43.
IsPreflight(r) == r.method = "OPTIONS"

\* Lines 44-47.
PreflightResponse(cors) == [status |-> 200, body |-> <<>>, headers |-> cors]

\* The rejection built without the headers option.
RateLimitResponseBare(cors) ==
    [status |-> 429, body |-> <<"Rate limit exceeded">>, headers |-> NoHeaders]

\* Lines 69-72.
RateLimitResponse(cors) ==
    [status |-> 429, body |-> <<"Rate limit exceeded">>, headers |-> cors]

----------------------------------------------------------------------------
(* State *)

\* The requests of a behaviour, in order of arrival.
MaxRequests == 3

Procs == 1..MaxRequests

\* The clock moves in steps of TickMs, or by the expiry time of a KV entry;
\* it is followed for MaxOffset ms after each such jump, up to MaxNow.
TickMs == 500

MaxOffset == 1000

MaxNow == 61000

TtlMs == ExpirationTtl * MsPerSecond

NoRequest == [method |-> "", headers |-> NoHeaders, pathname |-> <<>>, search |-> <<>>,
              body |-> <<>>]

NoOutbound == [url |-> <<>>, method |-> "", headers |-> NoHeaders, body |-> <<>>,
               bodyRead |-> FALSE]

NoResponse == [status |-> 0, body |-> <<>>, headers |-> NoHeaders]

NoCount == Num(0)

Terminal == {"preflight", "rejected", "relayed", "error"}

InitWith(envs, stores) ==
    /\ env \in envs
    /\ now = 0
    /\ store \in stores
    /\ pc = [p \in Procs |-> "idle"]
    /\ req = [p \in Procs |-> NoRequest]
    /\ corsOf = [p \in Procs |-> NoHeaders]
    /\ key = [p \in Procs |-> <<>>]
    /\ cnt = [p \in Procs |-> NoCount]
    /\ out = [p \in Procs |-> NoOutbound]
    /\ upstream = [p \in Procs |-> NoResponse]
    /\ resp = [p \in Procs |-> NoResponse]
    /\ ops = [p \in Procs |-> {}]
    /\ admitted = [k \in {} |-> 0]

----------------------------------------------------------------------------
(* The fetch handler, one action per stretch of code between two awaits *)

\* Lines 11-65: from the arrival of request r to its first await.  A preflight
\* request is answered here, an allow-listed one goes to handleRequest, any
\* other one computes its window key and calls get.
Receive(p, r) ==
    /\ pc[p] = "idle"
    /\ \A q \in Procs : q < p => pc[q] # "idle"
    /\ req' = [req EXCEPT ![p] = r]
    /\ corsOf' = [corsOf EXCEPT ![p] = CorsHeaders(env, r)]
    /\ IF IsPreflight(r)
       THEN /\ pc' = [pc EXCEPT ![p] = "preflight"]
            /\ resp' = [resp EXCEPT ![p] = PreflightResponse(CorsHeaders(env, r))]
            /\ UNCHANGED <<key, out, ops>>
       ELSE IF Bypasses(env, r)
       THEN /\ pc' = [pc EXCEPT ![p] = "fetch"]
            /\ out' = [out EXCEPT ![p] = HandleRequest(env, r)]
            /\ ops' = [ops EXCEPT ![p] = @ \cup {"fetch"}]
            /\ UNCHANGED <<key, resp>>
       ELSE /\ pc' = [pc EXCEPT ![p] = "get"]
            /\ key' = [key EXCEPT ![p] = WindowKeyOf(env, r, now)]
            /\ UNCHANGED <<out, resp, ops>>
    /\ UNCHANGED <<env, now, store, cnt, admitted, upstream>>

\* The rejected request counted as well.
GetReturnsCountingRejected(p) ==
    /\ pc[p] = "get"
    /\ ops' = [ops EXCEPT ![p] = @ \cup {"get"}]
    /\ IF Exceeded(Count(store, key[p], now), env)
       THEN /\ pc' = [pc EXCEPT ![p] = "rejected"]
            /\ resp' = [resp EXCEPT ![p] = RateLimitResponse(corsOf[p])]
            /\ store' = KvPut(store, key[p],
                              CountToString(Increment(Count(store, key[p], now))), now)
            /\ UNCHANGED cnt
       ELSE /\ pc' = [pc EXCEPT ![p] = "put"]
            /\ cnt' = [cnt EXCEPT ![p] = Increment(Count(store, key[p], now))]
            /\ UNCHANGED <<resp, store>>
    /\ UNCHANGED <<env, now, req, corsOf, key, out, admitted, upstream>>

\* Lines 65-76: get returns; the request is rejected or calls put.
GetReturns(p) ==
    /\ pc[p] = "get"
    /\ ops' = [ops EXCEPT ![p] = @ \cup {"get"}]
    /\ IF Exceeded(Count(store, key[p], now), env)
       THEN /\ pc' = [pc EXCEPT ![p] = "rejected"]
            /\ resp' = [resp EXCEPT ![p] = RateLimitResponse(corsOf[p])]
            /\ UNCHANGED cnt
       ELSE /\ pc' = [pc EXCEPT ![p] = "put"]
            /\ cnt' = [cnt EXCEPT ![p] = Increment(Count(store, key[p], now))]
            /\ UNCHANGED resp
    /\ UNCHANGED <<env, now, store, req, corsOf, key, out, admitted, upstream>>

\* The put made conditional on the counter being what the request had read:
\* a request that lost the race is rejected.
PutReturnsIfUnchanged(p) ==
    /\ pc[p] = "put"
    /\ IF Increment(Count(store, key[p], now)) = cnt[p]
       THEN /\ store' = KvPut(store, key[p], CountToString(cnt[p]), now)
            /\ admitted' = [k \in DOMAIN admitted \cup {key[p]} |->
                               IF k = key[p]
                               THEN (IF k \in DOMAIN admitted THEN admitted[k] ELSE 0) + 1
                               ELSE admitted[k]]
            /\ ops' = [ops EXCEPT ![p] = @ \cup {"put", "fetch"}]
            /\ out' = [out EXCEPT ![p] = HandleRequest(env, req[p])]
            /\ pc' = [pc EXCEPT ![p] = "fetch"]
            /\ UNCHANGED resp
       ELSE /\ pc' = [pc EXCEPT ![p] = "rejected"]
            /\ resp' = [resp EXCEPT ![p] = RateLimitResponse(corsOf[p])]
            /\ UNCHANGED <<store, admitted, ops, out>>
    /\ UNCHANGED <<env, now, req, corsOf, key, cnt, upstream>>

\* Lines 77-102: put returns; handleRequest builds the outbound request and
\* calls fetch.
PutReturns(p) ==
    /\ pc[p] = "put"
    /\ store' = KvPut(store, key[p], CountToString(cnt[p]), now)
    /\ admitted' = [k \in DOMAIN admitted \cup {key[p]} |->
                       IF k = key[p]
                       THEN (IF k \in DOMAIN admitted THEN admitted[k] ELSE 0) + 1
                       ELSE admitted[k]]
    /\ ops' = [ops EXCEPT ![p] = @ \cup {"put", "fetch"}]
    /\ out' = [out EXCEPT ![p] = HandleRequest(env, req[p])]
    /\ pc' = [pc EXCEPT ![p] = "fetch"]
    /\ UNCHANGED <<env, now, req, corsOf, key, cnt, resp, upstream>>

\* The error of get caught after the request was dispatched all the same.
GetFailsThenDispatches(p) ==
    /\ pc[p] = "get"
    /\ ops' = [ops EXCEPT ![p] = @ \cup {"get", "fetch"}]
    /\ out' = [out EXCEPT ![p] = HandleRequest(env, req[p])]
    /\ pc' = [pc EXCEPT ![p] = "error"]
    /\ UNCHANGED <<env, now, store, req, corsOf, key, cnt, resp, admitted, upstream>>

\* Line 65: get rejects; the error leaves the handler.
GetFails(p) ==
    /\ pc[p] = "get"
    /\ ops' = [ops EXCEPT ![p] = @ \cup {"get"}]
    /\ pc' = [pc EXCEPT ![p] = "error"]
    /\ UNCHANGED <<env, now, store, req, corsOf, key, cnt, out, resp, admitted, upstream>>

\* Line 77: put rejects; the write may or may not have reached the store.
PutFails(p) ==
    /\ pc[p] = "put"
    /\ ops' = [ops EXCEPT ![p] = @ \cup {"put"}]
    /\ pc' = [pc EXCEPT ![p] = "error"]
    /\ store' \in {store, KvPut(store, key[p], CountToString(cnt[p]), now)}
    /\ UNCHANGED <<env, now, req, corsOf, key, cnt, out, resp, admitted, upstream>>

\* Lines 90 and 104-109: the outbound fetch resolves with response res.
UpstreamResponds(p, res) ==
    /\ pc[p] = "fetch"
    /\ upstream' = [upstream EXCEPT ![p] = res]
    /\ resp' = [resp EXCEPT ![p] = Relay(out[p], res, corsOf[p])]
    /\ pc' = [pc EXCEPT ![p] = "relayed"]
    /\ UNCHANGED <<env, now, store, req, corsOf, key, cnt, out, ops, admitted>>

\* Lines 90 and 104: the outbound fetch rejects.
UpstreamFails(p) ==
    /\ pc[p] = "fetch"
    /\ pc' = [pc EXCEPT ![p] = "error"]
    /\ UNCHANGED <<env, now, store, req, corsOf, key, cnt, out, resp, ops, admitted, upstream>>

\* Date.now() advances.
Tick ==
    /\ (now % TtlMs) + TickMs <= MaxOffset
    /\ now' = now + TickMs
    /\ UNCHANGED <<env, store, pc, req, corsOf, key, cnt, out, resp, ops, admitted, upstream>>

TickTtl ==
    /\ now + TtlMs <= MaxNow
    /\ now' = now + TtlMs
    /\ UNCHANGED <<env, store, pc, req, corsOf, key, cnt, out, resp, ops, admitted, upstream>>

\* The KV namespace drops an entry whose expiration time has passed.
Expire(k) ==
    /\ k \in DOMAIN store
    /\ store[k].expiration <= now
    /\ store' = [x \in DOMAIN store \ {k} |-> store[x]]
    /\ UNCHANGED <<env, now, pc, req, corsOf, key, cnt, out, resp, ops, admitted, upstream>>

----------------------------------------------------------------------------
(* Inputs *)

Ip7 == <<"7">>

Ip9 == <<"9">>

ApiKey == ("HELIUS_API_KEY" :> <<"K">>)

\* Environments of the limiter: max 2 per 1 s window with client 9
\* allow-listed; max 1 per default window with no allow-list.
EnvLimit2 ==
    ApiKey @@ ("RATE_LIMIT_MAX_REQUESTS" :> <<"2">>) @@ ("RATE_LIMIT_TIME_WINDOW" :> <<"1">>)
           @@ ("WHITELISTED_IPS" :> Ip9)

EnvLimit1 == ApiKey @@ ("RATE_LIMIT_MAX_REQUESTS" :> <<"1">>)

\* A window longer than the expiry of a KV entry.
EnvWindow120 ==
    ApiKey @@ ("RATE_LIMIT_MAX_REQUESTS" :> <<"1">>)
           @@ ("RATE_LIMIT_TIME_WINDOW" :> <<"1", "2", "0">>)

\* Origins and origin pattern lists.
OriginApp == <<"h", "t", "t", "p", "s", ":", "/", "/", "a", "p", "p", ".",
               "e", "x", "a", "m", "p", "l", "e", ".", "c", "o", "m">>

OriginEvil == <<"h", "t", "t", "p", "s", ":", "/", "/", "e", "v", "i", "l", ".", "c", "o", "m">>

PatternWildcard == <<"*", ".", "e", "x", "a", "m", "p", "l", "e", ".", "c", "o", "m">>

PatternApp == <<"a", "p", "p", ".", "e", "x", "a", "m", "p", "l", "e", ".", "c", "o", "m">>

\* CORS_ALLOW_ORIGIN = "*.example.com", "app.example.com" (with clients 7 and 9
\* allow-listed) and "https://*.example.com,app.example.com"; max 1.
EnvCorsWildcard ==
    ApiKey @@ ("CORS_ALLOW_ORIGIN" :> PatternWildcard)
           @@ ("RATE_LIMIT_MAX_REQUESTS" :> <<"1">>)

EnvCorsApp ==
    ApiKey @@ ("CORS_ALLOW_ORIGIN" :> PatternApp) @@ ("RATE_LIMIT_MAX_REQUESTS" :> <<"1">>)
           @@ ("WHITELISTED_IPS" :> <<"7", ",", "9">>)

EnvCorsScheme ==
    ApiKey @@ ("CORS_ALLOW_ORIGIN" :> Https \o PatternWildcard \o <<",">> \o PatternApp)
           @@ ("RATE_LIMIT_MAX_REQUESTS" :> <<"1">>)

\* No pattern list: unset, or set to the empty string.
EnvCorsEmpty ==
    ApiKey @@ ("CORS_ALLOW_ORIGIN" :> <<>>) @@ ("RATE_LIMIT_MAX_REQUESTS" :> <<"1">>)
           @@ ("WHITELISTED_IPS" :> <<>>)

\* Values of the two numeric settings: empty, not a number, zero, negative,
\* a number, a number followed by other characters.
SettingValues == {<<>>, <<"a", "b", "c">>, <<"0">>, <<"-", "1">>, <<"3">>, <<"2", "x">>}

\* A setting left unset, or set to one of the values.
SettingChoices(name) == {NoHeaders} \cup {name :> v : v \in SettingValues}

SettingEnvs ==
    {ApiKey @@ m @@ w : m \in SettingChoices("RATE_LIMIT_MAX_REQUESTS"),
                        w \in SettingChoices("RATE_LIMIT_TIME_WINDOW")}

Request(method, headers, pathname, search, body) ==
    [method |-> method, headers |-> headers, pathname |-> pathname, search |-> search,
     body |-> body]

Get(headers) == Request("GET", headers, <<"/">>, <<>>, <<>>)

Options(headers) == Request("OPTIONS", headers, <<"/">>, <<>>, <<>>)

From(ip) == ("CF-Connecting-IP" :> ip)

LimiterRequests == {Get(From(Ip7)), Get(From(Ip9)), Options(From(Ip7))}

SeqRequests == {Get(From(Ip7)), Get(NoHeaders)}

CfgRequests == {Get(From(Ip7))}

\* A client address with the separator of the window key in it.
Ip71 == <<"7", ":", "1">>

\* Requests of three clients, one of them without an address, each carrying
\* the time it is sent at as its body, so that the time a request was handled
\* at can be told from the request afterwards.
SentAt(headers, t) == Request("POST", headers, <<"/">>, <<>>, <<NumToString(t)>>)

KeyRequests(t) ==
    {SentAt(h, t) : h \in {From(Ip7), From(Ip71), NoHeaders}}

\* Requests that differ in what the origin validator reads.
OriginHeaders ==
    {NoHeaders, "Origin" :> <<>>, "Origin" :> OriginApp, "Origin" :> OriginEvil}

CorsRequests ==
    {Request(m, h @@ From(ip), <<"/">>, <<>>, <<>>) :
        m \in {"GET", "OPTIONS"}, h \in OriginHeaders, ip \in {Ip7, Ip9}}

\* Requests that differ in what the dispatcher reads.
PathTx == <<"/", "v", "0", "/", "t", "x">>

Devnet == <<"d", "e", "v", "n", "e", "t">>

QueryCluster(v) == <<"?">> \o ClusterParam \o <<"=">> \o v

\* ?a=1&cluster=devnet&b
QueryWithOthers == <<"?", "a", "=", "1", "&">> \o Tail(QueryCluster(Devnet)) \o <<"&", "b">>

\* A cluster value that holds a URL delimiter.
ClusterWithSlash == <<"e", ".", "c", "o", "/", "x">>

\* A cluster value that holds the query delimiter.
ClusterWithQuery == <<"e", "?", "x">>

Searches ==
    {<<>>, QueryCluster(Devnet), QueryCluster(<<>>), QueryWithOthers,
     QueryCluster(ClusterWithSlash), QueryCluster(ClusterWithQuery)}

UpgradeHeaders ==
    {NoHeaders, "Upgrade" :> Websocket, "Upgrade" :> <<"h", "2", "c">>, "Upgrade" :> <<>>}

Bodies == {<<>>, <<<<>>>>, <<<<"{", "}">>>>}

DispatchRequests ==
    {Request(m, h @@ From(Ip7), path, search, body) :
        m \in {"GET", "POST"}, h \in UpgradeHeaders, path \in {<<"/">>, PathTx},
        search \in Searches, body \in Bodies}

OneRequests == CorsRequests \cup DispatchRequests

UpstreamOk ==
    [status |-> 200, body |-> <<"{\"result\":1}">>,
     headers |-> ("Content-Type" :> <<"application/json">>)
                 @@ (AllowOrigin :> <<"https://upstream">>)]

UpstreamError ==
    [status |-> 500, body |-> <<"upstream error">>,
     headers |-> ("Content-Type" :> <<"text/plain">>)]

UpstreamLimited ==
    [status |-> 429, body |-> <<"slow down">>, headers |-> ("Retry-After" :> <<"1">>)]

UpstreamResponses == {UpstreamOk, UpstreamError, UpstreamLimited}

EmptyStore == [k \in {} |-> [value |-> <<>>, expiration |-> 0]]

\* Counters left in the namespace by earlier requests (the namespace outlives
\* a deployment and its settings): clients 7 and 9 at count 2 in window 0.
StoreAtMax ==
    (WindowKey(Ip7, 0) :> [value |-> <<"2">>, expiration |-> TtlMs])
    @@ (WindowKey(Ip9, 0) :> [value |-> <<"2">>, expiration |-> TtlMs])

----------------------------------------------------------------------------
(* Specifications *)

InFlight(p) == pc[p] \notin Terminal \cup {"idle"}

\* Requests are handled concurrently: any request in flight may take its next
\* step, and a new one may arrive at any time.
Init == InitWith({EnvLimit2, EnvLimit1}, {EmptyStore})

Next ==
    \/ \E p \in Procs, r \in LimiterRequests : Receive(p, r)
    \/ \E p \in Procs : GetReturns(p)
    \/ \E p \in Procs : PutReturns(p)
    \/ \E p \in Procs : UpstreamResponds(p, UpstreamOk)
    \/ Tick

Spec == Init /\ [][Next]_vars

\* The same, from a namespace that already holds counters.
InitGate == InitWith({EnvLimit2, EnvLimit1}, {EmptyStore, StoreAtMax})

SpecGate == InitGate /\ [][Next]_vars

\* Requests are handled one after another, over a time long enough for KV
\* entries to expire, with store failures.
InitSeq == InitWith({EnvLimit2, EnvWindow120}, {EmptyStore})

NextSeq ==
    \/ \E p \in Procs, r \in SeqRequests :
          (\A q \in Procs : ~InFlight(q)) /\ Receive(p, r)
    \/ \E p \in Procs : GetReturns(p)
    \/ \E p \in Procs : PutReturns(p)
    \/ \E p \in Procs : GetFails(p)
    \/ \E p \in Procs : PutFails(p)
    \/ \E p \in Procs : UpstreamResponds(p, UpstreamOk)
    \/ Tick
    \/ TickTtl
    \/ \E k \in DOMAIN store : Expire(k)

SpecSeq == InitSeq /\ [][NextSeq]_vars

\* One request, over every combination of the inputs the origin validator and
\* the dispatcher read.
InitOne ==
    InitWith({EnvLimit2, EnvCorsWildcard, EnvCorsApp, EnvCorsScheme, EnvCorsEmpty},
             {EmptyStore, StoreAtMax})

NextOne ==
    \/ \E r \in OneRequests : Receive(1, r)
    \/ GetReturns(1)
    \/ PutReturns(1)
    \/ \E res \in UpstreamResponses : UpstreamResponds(1, res)
    \/ UpstreamFails(1)

SpecOne == InitOne /\ [][NextOne]_vars

\* Two requests of one client under every combination of the two numeric
\* settings.
InitCfg == InitWith(SettingEnvs, {EmptyStore})

NextCfg ==
    \/ \E p \in 1..2, r \in CfgRequests : Receive(p, r)
    \/ \E p \in 1..2 : GetReturns(p)
    \/ \E p \in 1..2 : PutReturns(p)
    \/ \E p \in 1..2 : UpstreamResponds(p, UpstreamOk)
    \/ Tick

SpecCfg == InitCfg /\ [][NextCfg]_vars

\* Concurrent requests of several clients, with and without a client address,
\* in two windows.
InitKey == InitWith({EnvLimit1}, {EmptyStore})

NextKey ==
    \/ \E p \in Procs, r \in KeyRequests(now) : Receive(p, r)
    \/ \E p \in Procs : GetReturns(p)
    \/ \E p \in Procs : PutReturns(p)
    \/ Tick

SpecKey == InitKey /\ [][NextKey]_vars

----------------------------------------------------------------------------
(* Claims *)

\* The number of requests admitted so far under window key k.
AdmittedIn(k) == IF k \in DOMAIN admitted THEN admitted[k] ELSE 0

\* Request p is the first to use its window key.
FirstOfWindow(p) == \A q \in Procs \ {p} : key[q] # key[p]

\* The get of request p returns in this step.
GetReturned(p) == pc[p] = "get" /\ pc'[p] \in {"put", "rejected"}

\* The window in which p formed its key is still the current one.
InItsWindow(p) == key[p] = WindowKeyOf(env, req[p], now)

\* C1: with requests handled one after another, for every window length and
\* max M, the request after M admitted ones in the same window is answered 429
\* and the first request of an identity in a window is admitted.
C1_SequentialLimit ==
    [][\A p \in Procs :
          (GetReturned(p) /\ InItsWindow(p)) =>
            /\ AdmittedIn(key[p]) = RATE_LIMIT_MAX_REQUESTS(env) => pc'[p] = "rejected"
            /\ FirstOfWindow(p) => pc'[p] = "put"]_vars

\* The max the configuration of this behaviour asks for.
ConfiguredMax == IF env = EnvLimit2 THEN 2 ELSE 1

\* The counter a get of key k would read now.
StoredCount(k) == IF Live(store, k, now) THEN ParseInt(store[k].value).val ELSE 0

Identities == {Ip7, Ip9, Unknown}

\* k is the key of the window that is current at time t.
CurrentKey(k, t) == \E id \in Identities : k = WindowKey(id, CurrentTime(env, t))

TrustedIds ==
    IF env = EnvLimit2 THEN {Ip9}
    ELSE IF env = EnvCorsApp THEN {Ip7, Ip9}
    ELSE {}

\* The client identity of request p: its client address, or 'unknown'.
IdentityOf(p) ==
    IF "CF-Connecting-IP" \in DOMAIN req[p].headers /\ req[p].headers["CF-Connecting-IP"] # <<>>
    THEN req[p].headers["CF-Connecting-IP"]
    ELSE Unknown

Started(p) == pc[p] # "idle"

C4_PreflightOnly ==
    /\ [](\A p \in Procs :
            (Started(p) /\ req[p].method = "OPTIONS") =>
                /\ pc[p] = "preflight"
                /\ resp[p] = [status |-> 200, body |-> <<>>, headers |-> corsOf[p]]
                /\ ops[p] = {}
                /\ key[p] = <<>>
                /\ out[p] = NoOutbound)
    /\ [][\A p \in Procs :
            (~Started(p) /\ Started(p)' /\ req'[p].method = "OPTIONS")
              => (store' = store /\ admitted' = admitted)]_vars

\* A preflight answered while its client's counter for the current window is
\* at the max.
C4_Witness ==
    \E p \in Procs :
        /\ pc[p] = "preflight"
        /\ resp[p].status = 200
        /\ StoredCount(WindowKey(IdentityOf(p), CurrentTime(env, now))) >= ConfiguredMax

CorsNames ==
    {"Access-Control-Allow-Methods", "Access-Control-Allow-Headers", "Access-Control-Allow-Origin"}

\* The CORS headers of header set h are exactly those of the fragment.
CarriesCors(h, fragment) ==
    \A n \in CorsNames :
        IF n \in DOMAIN fragment THEN n \in DOMAIN h /\ h[n] = fragment[n]
        ELSE n \notin DOMAIN h

Answered(p) == pc[p] \in {"preflight", "rejected", "relayed"}

\* Request p asks for a protocol upgrade.
Upgrading(p) == "Upgrade" \in DOMAIN req[p].headers /\ req[p].headers["Upgrade"] # <<>>

\* C5 as stated: every response the handler returns carries the CORS fragment
\* computed from the configuration and the request's Origin alone.
C5_EveryResponseCarriesCors ==
    \A p \in Procs :
        Answered(p) =>
            /\ corsOf[p] = CorsHeaders(env, req[p])
            /\ CarriesCors(resp[p].headers, corsOf[p])

\* C5 amended: every response the handler builds itself (preflight, 429,
\* proxied response of a request without upgrade) has exactly the CORS
\* fragment as its headers, and the fragment depends on the configuration and
\* the request alone; the response to an upgrade request is the upstream's
\* response as it came, with the upstream's headers.
C5_BuiltResponsesCarryCors ==
    \A p \in Procs :
        Answered(p) =>
            /\ corsOf[p] = CorsHeaders(env, req[p])
            /\ IF pc[p] = "relayed" /\ Upgrading(p)
               THEN resp[p] \in UpstreamResponses
               ELSE resp[p].headers = corsOf[p]

\* A rejection that carries the echoed origin.
C5_Witness ==
    \E p \in Procs :
        /\ pc[p] = "rejected"
        /\ AllowOrigin \in DOMAIN resp[p].headers
        /\ resp[p].headers[AllowOrigin] = OriginApp

\* The origin patterns the configuration of this behaviour lists.
Patterns ==
    IF env = EnvCorsWildcard THEN <<PatternWildcard>>
    ELSE IF env = EnvCorsApp THEN <<PatternApp>>
    ELSE IF env = EnvCorsScheme THEN <<Https \o PatternWildcard, PatternApp>>
    ELSE <<>>

\* Request p has an Origin header (with a value).
HasOrigin(p) == "Origin" \in DOMAIN req[p].headers /\ req[p].headers["Origin"] # <<>>

\* C6: Access-Control-Allow-Origin is '*' with no pattern list; with a list it
\* is absent without an Origin header, the request's own Origin when some
\* pattern matches it, and absent otherwise.
C6_AllowOriginDecision ==
    \A p \in Procs :
        Started(p) =>
            LET h == corsOf[p]
            IN  IF Patterns = <<>>
                THEN AllowOrigin \in DOMAIN h /\ h[AllowOrigin] = <<"*">>
                ELSE IF ~HasOrigin(p) THEN AllowOrigin \notin DOMAIN h
                ELSE IF \E i \in 1..Len(Patterns) :
                            DomainMatches(Patterns[i], req[p].headers["Origin"])
                     THEN /\ AllowOrigin \in DOMAIN h
                          /\ h[AllowOrigin] = req[p].headers["Origin"]
                          /\ h[AllowOrigin] # <<"*">>
                     ELSE AllowOrigin \notin DOMAIN h

C6_Witness ==
    \E p \in Procs :
        /\ Started(p)
        /\ Patterns # <<>>
        /\ AllowOrigin \in DOMAIN corsOf[p]
        /\ corsOf[p][AllowOrigin] = OriginApp

\* C7: with pattern '*.example.com' or 'app.example.com' configured, origin
\* 'https://app.example.com' is accepted (echoed) and origin 'https://evil.com'
\* gets no Access-Control-Allow-Origin header.
C7_ExampleOrigins ==
    \A p \in Procs :
        (Started(p) /\ HasOrigin(p) /\ env \in {EnvCorsWildcard, EnvCorsApp}) =>
            /\ req[p].headers["Origin"] = OriginApp =>
                  /\ AllowOrigin \in DOMAIN corsOf[p]
                  /\ corsOf[p][AllowOrigin] = OriginApp
            /\ req[p].headers["Origin"] = OriginEvil => AllowOrigin \notin DOMAIN corsOf[p]

\* The 'cluster' query parameter of request p, 'mainnet' when it is absent or
\* empty.
ClusterOf(p) ==
    IF req[p].search \in {QueryCluster(Devnet), QueryWithOthers} THEN Devnet
    ELSE IF req[p].search = QueryCluster(ClusterWithSlash) THEN ClusterWithSlash
    ELSE IF req[p].search = QueryCluster(ClusterWithQuery) THEN ClusterWithQuery
    ELSE Mainnet

\* Request p has reached the dispatcher's outbound fetch.
Dispatched(p) == "fetch" \in ops[p]

\* C8: a request without upgrade goes to host <cluster>.helius-rpc.com when its
\* path is '/', and to api.helius.xyz with its path kept otherwise.
C8_Routing ==
    \A p \in Procs :
        (Dispatched(p) /\ ~Upgrading(p)) =>
            /\ UrlPathname(out[p].url) = req[p].pathname
            /\ UrlHost(out[p].url) =
                  (IF req[p].pathname = <<"/">> THEN ClusterOf(p) \o RpcSuffix ELSE ApiHost)

\* C9: a request with an Upgrade header value is forwarded as it came (method,
\* headers, body, the body unread) to host <cluster>.helius-rpc.com, path '/',
\* with the credential as the only query parameter, whatever its own path; the
\* upstream's response is returned as it came.
C9_UpgradePassThrough ==
    \A p \in Procs :
        (Dispatched(p) /\ Upgrading(p)) =>
            /\ out[p].method = req[p].method
            /\ out[p].headers = req[p].headers
            /\ out[p].body = req[p].body
            /\ ~out[p].bodyRead
            /\ UrlHost(out[p].url) = ClusterOf(p) \o RpcSuffix
            /\ UrlPathname(out[p].url) = <<"/">>
            /\ UrlSearch(out[p].url) = ApiKeyParam \o <<"K">>
            /\ pc[p] = "relayed" => resp[p] = upstream[p]

\* C10: the response to a request without upgrade has the upstream's status
\* and body, and exactly the CORS fragment as headers: no upstream header.
C10_RelayStatusAndBody ==
    \A p \in Procs :
        (pc[p] = "relayed" /\ ~Upgrading(p)) =>
            /\ resp[p].status = upstream[p].status
            /\ resp[p].body = upstream[p].body
            /\ resp[p].headers = corsOf[p]
            /\ \A h \in DOMAIN upstream[p].headers \ CorsNames : h \notin DOMAIN resp[p].headers
            /\ DOMAIN resp[p].headers \subseteq CorsNames

\* An upstream error relayed, under a pattern list that leaves the response
\* without Access-Control-Allow-Origin although the upstream sent one.
C10_Witness ==
    \E p \in Procs :
        /\ pc[p] = "relayed" /\ ~Upgrading(p)
        /\ resp[p].status = 500
        /\ resp[p].body = UpstreamError.body

\* A setting value that is not a number.
NotNumeric == {<<>>, <<"a", "b", "c">>}

MissingOrNotNumeric(name) == name \notin DOMAIN env \/ env[name] \in NotNumeric

\* C11: for every value of the two numeric settings the limiter works with a
\* max and a window length that are positive integers, 50 and 1 when the
\* setting is missing or not a number; no request fails on the settings, and
\* the first request of a client in a window is not rejected.
C11_PositiveSettings ==
    \A p \in Procs :
        "get" \in ops[p] =>
            /\ RATE_LIMIT_MAX_REQUESTS(env) >= 1
            /\ RATE_LIMIT_TIME_WINDOW(env) >= 1
            /\ MissingOrNotNumeric("RATE_LIMIT_MAX_REQUESTS")
                  => RATE_LIMIT_MAX_REQUESTS(env) = 50
            /\ MissingOrNotNumeric("RATE_LIMIT_TIME_WINDOW")
                  => RATE_LIMIT_TIME_WINDOW(env) = 1
            /\ pc[p] # "error"
            /\ (p = 1 /\ store = EmptyStore) => pc[p] # "rejected"

\* Request p ended in an error of the store (no other step fails in the
\* behaviours this is checked in).
StoreFailed(p) == pc[p] = "error"

\* C12: a request whose store get or store put fails ends in an error and
\* stays there: it is not counted as admitted, no outbound request is built
\* or fetched for it and it gets no response, 429 or proxied; the failing get
\* leaves the store as it was.
C12_StoreFailureEndsRequest ==
    /\ [](\A p \in Procs :
            StoreFailed(p) =>
                /\ out[p] = NoOutbound
                /\ "fetch" \notin ops[p]
                /\ resp[p] = NoResponse
                /\ upstream[p] = NoResponse)
    /\ [][\A p \in Procs :
            /\ (pc[p] \in {"get", "put"} /\ pc'[p] = "error") => admitted' = admitted
            /\ (pc[p] = "get" /\ pc'[p] = "error") => store' = store
            /\ StoreFailed(p) => StoreFailed(p)']_vars

\* A request whose put failed after the write reached the store, and one whose
\* get failed.
C12_Witness ==
    \E p, q \in Procs :
        /\ StoreFailed(p) /\ "put" \in ops[p]
        /\ key[p] \in DOMAIN store /\ AdmittedIn(key[p]) = 0
        /\ StoreFailed(q) /\ "put" \notin ops[q]

\* The requests with window key k whose put has completed: those that went
\* on to the dispatcher after it.
PutDone(k) == {p \in Procs : key[p] = k /\ {"put", "fetch"} \subseteq ops[p]}

\* The number a stored entry holds, -1 when it is not a number.
ValueOf(entry) == IF ParseInt(entry.value).nan THEN -1 ELSE ParseInt(entry.value).val

\* C13: in every interleaving of concurrent requests, the counter stored
\* under a window key is a number, at least 0 and at most the number of
\* requests with that key whose put has completed.
C13_NeverOverCounts ==
    \A k \in DOMAIN store :
        /\ ValueOf(store[k]) >= 0
        /\ ValueOf(store[k]) <= Cardinality(PutDone(k))

\* Interleaving has left a counter lower than the number admitted.
C13_Witness ==
    \E k \in DOMAIN store :
        /\ Cardinality(PutDone(k)) = 3
        /\ ValueOf(store[k]) = 1

\* C14: nothing orders the get and put of one request against those of
\* another: a request that has read a count below the max holds that count
\* plus one, and its put, whenever it completes, writes that value and admits
\* the request, whatever has been written to its key since it read.
C14_NoLock ==
    /\ [](\A p \in Procs : pc[p] = "put" => (cnt[p].val >= 1 /\ cnt[p].val <= ConfiguredMax))
    /\ [][\A p \in Procs :
            (pc[p] = "put" /\ pc'[p] # "put") =>
                /\ pc'[p] = "fetch"
                /\ key[p] \in DOMAIN store'
                /\ ValueOf(store'[key[p]]) = cnt[p].val
                /\ p \in PutDone(key[p])']_vars

\* Two requests with one window key have read the same count, both have
\* written it plus one and both are admitted: more admitted than the max.
C14_Witness ==
    \E p, q \in Procs :
        /\ p # q /\ key[p] = key[q]
        /\ {p, q} \subseteq PutDone(key[p])
        /\ cnt[p] = cnt[q]
        /\ Cardinality(PutDone(key[p])) > ConfiguredMax

\* C15: for every configured window length, the counter entry of a window key
\* is still readable for as long as its window is the current one: the fixed
\* 60-second expiry does not end it before the window does.
C15_EntryOutlivesWindow ==
    \A k \in DOMAIN store : CurrentKey(k, now) => Live(store, k, now)

\* C16: a request the limiter rejects has made no put and no outbound fetch,
\* the step that rejects it leaves the store as it is, and it stays rejected;
\* a request that is neither a preflight nor of an allow-listed identity, with
\* or without upgrade, has an outbound request only after its get returned a
\* count below the max and its put completed.
C16_RejectedHasNoEffect ==
    /\ [](\A p \in Procs :
            /\ pc[p] = "rejected" =>
                  /\ "put" \notin ops[p] /\ "fetch" \notin ops[p]
                  /\ out[p] = NoOutbound /\ upstream[p] = NoResponse
            /\ ((out[p] # NoOutbound \/ Dispatched(p)) /\ IdentityOf(p) \notin TrustedIds) =>
                  /\ {"get", "put"} \subseteq ops[p]
                  /\ cnt[p].val - 1 < ConfiguredMax
                  /\ key[p] = WindowKey(IdentityOf(p), 0))
    /\ [][\A p \in Procs :
            /\ (pc[p] = "get" /\ pc'[p] = "rejected") =>
                  (store' = store /\ admitted' = admitted)
            /\ pc[p] = "rejected" => pc'[p] = "rejected"]_vars

\* An upgrade request rejected while its key is at the max.
C16_Witness ==
    \E p \in Procs :
        /\ pc[p] = "rejected" /\ Upgrading(p)
        /\ store = StoreAtMax
        /\ StoredCount(key[p]) >= ConfiguredMax

\* The time request p was handled at, and the window of that time under the
\* window length the configuration of this behaviour asks for.
SentTime(p) == ParseInt(req[p].body[1]).val

ConfiguredWindow == IF env = EnvWindow120 THEN 120 ELSE 1

WindowOf(p) == SentTime(p) \div (ConfiguredWindow * MsPerSecond)

\* Request p went to the limiter.
Limited(p) == key[p] # <<>>

\* C17: two requests have the same window key exactly when they have the same
\* client identity and the same floor(time / W); a request without a client
\* address has the key of identity 'unknown'; a step of a request changes no
\* store entry other than that of its own key, and whether its get ends in a
\* rejection depends on the entry of its own key alone.
C17_KeyPerIdentityAndWindow ==
    /\ [](\A p, q \in Procs :
            (Limited(p) /\ Limited(q)) =>
                (key[p] = key[q] <=>
                    (IdentityOf(p) = IdentityOf(q) /\ WindowOf(p) = WindowOf(q))))
    /\ [](\A p \in Procs :
            (Limited(p) /\ "CF-Connecting-IP" \notin DOMAIN req[p].headers) =>
                key[p] = Unknown \o <<":">> \o NumToString(WindowOf(p)))
    /\ [][\A p \in Procs :
            pc'[p] # pc[p] =>
                /\ \A k \in (DOMAIN store \cup DOMAIN store') \ {key'[p]} :
                      k \in DOMAIN store /\ k \in DOMAIN store' /\ store'[k] = store[k]
                /\ pc[p] = "get" =>
                      (pc'[p] = "rejected" <=> StoredCount(key[p]) >= ConfiguredMax)]_vars

\* In one window: a client admitted, its next request rejected, and after that
\* a request of another client, whose address begins with the first one's,
\* admitted.
C17_Witness ==
    /\ pc[1] = "fetch" /\ IdentityOf(1) = Ip7
    /\ pc[2] = "rejected" /\ IdentityOf(2) = Ip7
    /\ pc[3] = "fetch" /\ IdentityOf(3) = Ip71
    /\ WindowOf(1) = WindowOf(2) /\ WindowOf(2) = WindowOf(3)
    /\ SentTime(3) > SentTime(1)

\* The text of the body of request p, empty when it has no body.
BodyText(p) == IF req[p].body = <<>> THEN <<>> ELSE req[p].body[1]

\* C18: the outbound request of a request without upgrade has the query
\* string 'api-key=<credential>', followed by '&' and the whole inbound query
\* string when that is not empty and by nothing otherwise; it has the inbound
\* method, a null body when the inbound body is empty and the inbound body
\* text otherwise, and exactly the headers Content-Type: application/json and
\* X-Helius-Cloudflare-Proxy: true.
C18_OutboundRequest ==
    \A p \in Procs :
        (Dispatched(p) /\ ~Upgrading(p)) =>
            /\ UrlSearch(out[p].url) =
                  <<"?", "a", "p", "i", "-", "k", "e", "y", "=", "K">>
                  \o (IF req[p].search = <<>> THEN <<>> ELSE <<"&">> \o Tail(req[p].search))
            /\ out[p].method = req[p].method
            /\ out[p].body = (IF BodyText(p) = <<>> THEN <<>> ELSE <<BodyText(p)>>)
            /\ DOMAIN out[p].headers = {"Content-Type", "X-Helius-Cloudflare-Proxy"}
            /\ out[p].headers["Content-Type"] = <<"application/json">>
            /\ out[p].headers["X-Helius-Cloudflare-Proxy"] = <<"true">>

\* Request p is of an allow-listed identity and is not a preflight.
Trusted(p) == Started(p) /\ IdentityOf(p) \in TrustedIds /\ req[p].method # "OPTIONS"

\* C19: a request of an allow-listed identity makes no store get and no store
\* put and forms no window key; its first step hands it to the dispatcher
\* with the CORS headers computed, which its response then carries; no step
\* of such a request changes the counter store.
C19_AllowListSkipsLimiter ==
    /\ [](\A p \in Procs :
            Trusted(p) =>
                /\ ops[p] = {"fetch"}
                /\ key[p] = <<>>
                /\ pc[p] \in {"fetch", "relayed", "error"}
                /\ out[p] # NoOutbound
                /\ "Access-Control-Allow-Methods" \in DOMAIN corsOf[p]
                /\ (pc[p] = "relayed" /\ ~Upgrading(p)) => resp[p].headers = corsOf[p])
    /\ [][\A p \in Procs :
            (pc'[p] # pc[p] /\ Trusted(p)') => (store' = store /\ admitted' = admitted)]_vars

\* Allow-listed requests dispatched and relayed, the namespace as it was.
C19_Witness ==
    /\ store = StoreAtMax
    /\ \E p, q \in Procs :
          /\ Trusted(p) /\ pc[p] = "fetch"
          /\ Trusted(q) /\ pc[q] = "relayed"

\* C20: in every interleaving, every value stored under a window key is a
\* number from 1 to the max M: a put writes the count its request read plus
\* one, and that count was below M.
C20_StoredValueWithinMax ==
    /\ [](\A k \in DOMAIN store :
            ValueOf(store[k]) >= 1 /\ ValueOf(store[k]) <= ConfiguredMax)
    /\ [][\A k \in DOMAIN store' :
            (k \notin DOMAIN store \/ store'[k] # store[k]) =>
                \E p \in Procs :
                    /\ pc[p] = "put" /\ key[p] = k
                    /\ ValueOf(store'[k]) = cnt[p].val
                    /\ cnt[p].val - 1 < ConfiguredMax /\ cnt[p].val - 1 >= 0]_vars

\* Three requests admitted under a max of 2, the counter at 2.
C20_Witness ==
    \E k \in DOMAIN store :
        /\ ConfiguredMax = 2
        /\ ValueOf(store[k]) = ConfiguredMax
        /\ Cardinality(PutDone(k)) > ConfiguredMax

====
